---- MODULE Spec2Model ----
(***************************************************************************)
(* Model of scripts/generate-schema-docs.ts: the CRD schema renderer       *)
(* (formatType, escapeCell, normalizeDescription, buildSection, mdxForCrd) *)
(* and the generation run (loadExamplesByKind, main).                      *)
(*                                                                         *)
(* A JavaScript string is a sequence of one-character strings, so that the *)
(* character-level rewrites of the code are modelled by what they do.  An  *)
(* optional field is a set: {} when absent, {v} when present.  Schema      *)
(* nodes live in a heap (schema : node id -> node), so that two fields can *)
(* hold the same object and a node can reach itself.                       *)
(***************************************************************************)
EXTENDS Integers, Sequences, FiniteSets, TLC

VARIABLES
    schema,         \* heap of SchemaNode objects, by node id
    call,           \* the renderer call under study: [fn, node]
    ret,            \* its result, {} until it has returned
    files,          \* the *-crd.yaml files in readdir order, each a sequence of YAML documents
    examples,       \* the examples file: {} when unreadable, else {<<candidate, ...>>}
    examplesByKind, \* main's map from lowercased kind to example text
    outFiles,       \* OUT_DIR: file name -> content
    log,            \* console.log lines of the current run (one per file written)
    fileIdx,        \* main's position: index of the file being processed
    docIdx,         \* main's position: index of the next document in that file
    docs,           \* the parsed documents of the file being processed
    status,         \* "idle" | "start" | "files" | "docs" | "done" | "aborted"
    exitCode,       \* process exit status of the current run
    run,            \* which run of the generator this is (1 or 2)
    firstRun        \* what the first run left behind: [outFiles, status, log]

vars == <<schema, call, ret, files, examples, examplesByKind, outFiles, log,
          fileIdx, docIdx, docs, status, exitCode, run, firstRun>>

rendererVars == <<schema, call, ret>>
mainVars == <<files, examples, examplesByKind, outFiles, log, fileIdx, docIdx,
              docs, status, exitCode, run, firstRun>>

----------------------------------------------------------------------------
(* Bounds of the model *)

\* number of free SchemaNode objects in a heap (ids 1..MaxNodes; id 0 is a fixed leaf)
MaxNodes == 3
\* longest properties map of a free node
MaxProps == 2
\* longest oneOf / anyOf / allOf list
MaxAlts == 2
\* longest description text drawn for the cell-escaping inputs
MaxDescLen == 5
\* number of schema documents over all input files
MaxDocs == 3
\* number of example candidates in the examples file
MaxExamples == 3

\* The engine's call stack holds finitely many frames; one more call throws
\* RangeError.  Deep enough that no acyclic heap of the model reaches it.
StackLimit == MaxNodes + 2

----------------------------------------------------------------------------
(* Strings *)

None == {}
Some(v) == {v}
The(opt) == CHOOSE v \in opt : TRUE

RECURSIVE Concat(_)
Concat(ss) == IF ss = <<>> THEN <<>> ELSE Head(ss) \o Concat(Tail(ss))

\* Array.prototype.join
RECURSIVE Join(_, _)
Join(ss, sep) ==
    IF ss = <<>> THEN <<>>
    ELSE IF Len(ss) = 1 THEN ss[1]
    ELSE ss[1] \o sep \o Join(Tail(ss), sep)

\* String.prototype.replace with a global one-character pattern
ReplaceAll(text, ch, rep) ==
    Concat([i \in 1..Len(text) |-> IF text[i] = ch THEN rep ELSE <<text[i]>>])

\* the characters \s matches, among those the model draws
IsSpace(c) == c \in {" ", "\n", "\t"}

\* text.replace(/\s+/g, ' ')
RECURSIVE CollapseSpace(_)
CollapseSpace(text) ==
    IF text = <<>> THEN <<>>
    ELSE IF IsSpace(text[1])
         THEN IF Len(text) > 1 /\ IsSpace(text[2])
              THEN CollapseSpace(Tail(text))
              ELSE <<" ">> \o CollapseSpace(Tail(text))
         ELSE <<text[1]>> \o CollapseSpace(Tail(text))

\* String.prototype.trim
RECURSIVE TrimStart(_)
TrimStart(text) ==
    IF text # <<>> /\ IsSpace(text[1]) THEN TrimStart(Tail(text)) ELSE text

RECURSIVE TrimEnd(_)
TrimEnd(text) ==
    IF text # <<>> /\ IsSpace(text[Len(text)])
    THEN TrimEnd(SubSeq(text, 1, Len(text) - 1))
    ELSE text

Trim(text) == TrimEnd(TrimStart(text))

\* String.prototype.toLowerCase, on the letters the model's kinds use
LowerChar(c) ==
    CASE c = "M" -> "m"
      [] c = "C" -> "c"
      [] c = "P" -> "p"
      [] c = "T" -> "t"
      [] c = "W" -> "w"
      [] OTHER -> c

toLowerCase(text) == [i \in 1..Len(text) |-> LowerChar(text[i])]

StartsWith(text, prefix) ==
    Len(text) >= Len(prefix) /\ SubSeq(text, 1, Len(prefix)) = prefix

Contains(text, piece) ==
    \E i \in 1..(Len(text) - Len(piece) + 1) :
        SubSeq(text, i, i + Len(piece) - 1) = piece

S_object == <<"o", "b", "j", "e", "c", "t">>
S_array == <<"a", "r", "r", "a", "y">>
S_string == <<"s", "t", "r", "i", "n", "g">>
S_integer == <<"i", "n", "t">>
S_unknown == <<"u", "n", "k", "n", "o", "w", "n">>
S_Root == <<"R", "o", "o", "t">>
\* the one character U+2014 (em dash)
S_dash == <<"U+2014">>
S_br == <<"<", "b", "r", " ", "/", ">">>
S_lbrace == <<"&", "#", "1", "2", "3", ";">>
S_rbrace == <<"&", "#", "1", "2", "5", ";">>
S_pipe == <<"\\", "|">>

----------------------------------------------------------------------------
(* Pure helpers of the renderer *)

\* the whitespace runs left as they are: only .trim()
normalizeDescriptionTrimOnly(text) == Trim(text)

normalizeDescription(text) == Trim(CollapseSpace(text))

escapeCell(text) ==
    ReplaceAll(
        ReplaceAll(
            ReplaceAll(
                ReplaceAll(text, "|", S_pipe),
                "{", S_lbrace),
            "}", S_rbrace),
        "\n", S_br)

\* ensureString(value, fallback) on an optional string
ensureString(value, fallback) == IF value = None THEN fallback ELSE The(value)

\* JSON.stringify of a literal: a string is quoted (with ", \ and newline
\* escaped), a number or boolean is its own text
JsonString(text) ==
    <<"\"">> \o
    Concat([i \in 1..Len(text) |->
        CASE text[i] = "\"" -> <<"\\", "\"">>
          [] text[i] = "\\" -> <<"\\", "\\">>
          [] text[i] = "\n" -> <<"\\", "n">>
          [] OTHER -> <<text[i]>>]) \o
    <<"\"">>

JsonStringify(v) == IF v.t = "string" THEN JsonString(v.text) ELSE v.text

\* formatDefault: '' for undefined; JSON.stringify throws on a bigint and
\* String(value) is used instead
formatDefault(value) ==
    IF value = None THEN <<>>
    ELSE IF The(value).t = "bigint" THEN The(value).text
    ELSE JsonStringify(The(value))

headingForPath(nodePath) ==
    IF nodePath = <<"#">> THEN S_Root
    ELSE IF StartsWith(nodePath, <<"#", ".">>) THEN SubSeq(nodePath, 3, Len(nodePath))
    ELSE IF StartsWith(nodePath, <<"#">>) THEN Tail(nodePath)
    ELSE nodePath

----------------------------------------------------------------------------
(* Schema nodes *)

\* the id of the fixed leaf node {type: "string"} every heap holds
Leaf == 0

NodeIds == 0..MaxNodes

\* a SchemaNode with every field absent
EmptyNode ==
    [type |-> None, description |-> None, enum |-> None, required |-> {},
     properties |-> None, items |-> None, additionalProperties |-> None,
     oneOf |-> None, anyOf |-> None, allOf |-> None, format |-> None,
     default |-> None]

\* node.xs?.length is truthy
NonEmptyList(xs) == xs # None /\ Len(The(xs)) > 0

\* ' | ' and ' & ' and ', '
SepOr == <<" ", "|", " ">>
SepAnd == <<" ", "&", " ">>
SepComma == <<",", " ">>

\* the branches with anyOf tested before oneOf
formatBranchAnyOfFirst(node) ==
    IF NonEmptyList(node.anyOf) THEN "anyOf"
    ELSE IF NonEmptyList(node.oneOf) THEN "oneOf"
    ELSE IF NonEmptyList(node.allOf) THEN "allOf"
    ELSE IF node.type = Some(S_array) THEN "array"
    ELSE IF node.type = Some(S_object) THEN "object"
    ELSE "primitive"

\* which return statement of formatType a node reaches: the conditions of
\* lines 64, 67, 70, 74 and 79, in that order
formatBranch(node) ==
    IF NonEmptyList(node.oneOf) THEN "oneOf"
    ELSE IF NonEmptyList(node.anyOf) THEN "anyOf"
    ELSE IF NonEmptyList(node.allOf) THEN "allOf"
    ELSE IF node.type = Some(S_array) THEN "array"
    ELSE IF node.type = Some(S_object) THEN "object"
    ELSE "primitive"

RECURSIVE formatType(_)
formatType(n) ==
    LET node == schema[n]
        branch == formatBranch(node)
        each(xs) == [i \in 1..Len(The(xs)) |-> formatType(The(xs)[i])]
    IN  CASE branch = "oneOf" -> Join(each(node.oneOf), SepOr)
          [] branch = "anyOf" -> Join(each(node.anyOf), SepOr)
          [] branch = "allOf" -> Join(each(node.allOf), SepAnd)
          [] branch = "array" ->
                IF node.items = None THEN S_array
                ELSE S_array \o <<"<">> \o formatType(The(node.items)) \o <<">">>
          [] branch = "object" ->
                IF node.additionalProperties # None
                   /\ The(node.additionalProperties).t = "schema"
                THEN <<"m", "a", "p", "<">> \o S_string \o SepComma
                     \o formatType(The(node.additionalProperties).node) \o <<">">>
                ELSE S_object
          [] OTHER ->
                LET baseType == ensureString(node.type, S_unknown)
                    enumSuffix ==
                        IF NonEmptyList(node.enum)
                        THEN <<" ", "(">>
                             \o Join([i \in 1..Len(The(node.enum)) |->
                                         JsonStringify(The(node.enum)[i])], SepComma)
                             \o <<")">>
                        ELSE <<>>
                    formatSuffix ==
                        IF node.format # None /\ The(node.format) # <<>>
                        THEN <<" ", "[">> \o The(node.format) \o <<"]">>
                        ELSE <<>>
                IN  baseType \o formatSuffix \o enumSuffix

\* Object.entries(node.properties ?? {}): [name, child] pairs in insertion order
toObjectEntries(node) ==
    IF node.properties = None THEN <<>> ELSE The(node.properties)

----------------------------------------------------------------------------
(* buildSection *)

\* the blocks pushed on `blocks`; a block is one line of the joined text
Blank == [k |-> "blank"]
HeadingBlock(text) == [k |-> "heading", text |-> text]
ParaBlock(text) == [k |-> "para", text |-> text]
TableHead == [k |-> "thead"]
TableSep == [k |-> "tsep"]
Placeholder == [k |-> "placeholder"]

\* description || '—' : the empty string is falsy
OrDash(text) == IF text = <<>> THEN S_dash ELSE text

\* the description cell of a row
descriptionCell(child) ==
    escapeCell(OrDash(normalizeDescription(ensureString(child.description, <<>>))))

\* one table row: name, type, required, description, default
Row(node, entry) ==
    LET child == schema[entry.node]
    IN  [k |-> "row",
         name |-> entry.name,
         type |-> escapeCell(formatType(entry.node)),
         required |-> IF entry.name \in node.required THEN "Yes" ELSE "No",
         description |-> descriptionCell(child),
         default |-> escapeCell(OrDash(formatDefault(child.default)))]

\* line 143: child.type === 'object' && child.properties && keys.length > 0
ExpandsAsObject(child) ==
    /\ child.type = Some(S_object)
    /\ child.properties # None
    /\ Len(The(child.properties)) > 0

\* line 148: child.type === 'array' && child.items?.type === 'object' && child.items.properties
\* (an empty properties object is truthy)
ExpandsAsArray(child) ==
    /\ child.type = Some(S_array)
    /\ child.items # None
    /\ schema[The(child.items)].type = Some(S_object)
    /\ schema[The(child.items)].properties # None

ChildPath(nodePath, name) ==
    IF nodePath = <<"#">> THEN <<"#", ".">> \o name ELSE nodePath \o <<".">> \o name

\* the heading, the optional description and the table or the placeholder
OwnBlocks(nodePath, node) ==
    LET entries == toObjectEntries(node)
        rows == [i \in 1..Len(entries) |-> Row(node, entries[i])]
    IN  <<HeadingBlock(headingForPath(nodePath))>>
        \o (IF node.description # None /\ The(node.description) # <<>>
            THEN <<Blank, ParaBlock(normalizeDescription(The(node.description)))>>
            ELSE <<>>)
        \o (IF Len(rows) > 0
            THEN <<Blank, TableHead, TableSep>> \o rows
            ELSE <<Blank, Placeholder>>)

\* a call that the engine's stack cannot take
StackOverflow(depth) ==
    [ok |-> FALSE, error |-> "RangeError", depth |-> depth, blocks |-> <<>>]

RECURSIVE buildSection(_, _, _)
RECURSIVE childSections(_, _, _, _, _)

\* the second loop of buildSection, from entry i on; `acc` is `blocks` so far
childSections(nodePath, entries, i, depth, acc) ==
    IF i > Len(entries)
    THEN [ok |-> TRUE, error |-> "", depth |-> depth, blocks |-> acc]
    ELSE LET child == schema[entries[i].node]
             childPath == ChildPath(nodePath, entries[i].name)
         IN  IF ExpandsAsObject(child)
             THEN LET r == buildSection(childPath, entries[i].node, depth + 1)
                  IN  IF r.ok
                      THEN childSections(nodePath, entries, i + 1, depth,
                                         acc \o <<Blank>> \o r.blocks)
                      ELSE r
             ELSE IF ExpandsAsArray(child)
             THEN LET r == buildSection(childPath \o <<"[", "]">>,
                                        The(child.items), depth + 1)
                  IN  IF r.ok
                      THEN childSections(nodePath, entries, i + 1, depth,
                                         acc \o <<Blank>> \o r.blocks)
                      ELSE r
             ELSE childSections(nodePath, entries, i + 1, depth, acc)

\* children's sections pushed before the node's own blocks
buildSectionChildrenFirst(nodePath, n, depth) ==
    IF depth > StackLimit THEN StackOverflow(depth)
    ELSE LET r == childSections(nodePath, toObjectEntries(schema[n]), 1, depth, <<>>)
         IN  IF r.ok
             THEN [r EXCEPT !.blocks = (IF r.blocks = <<>> THEN <<>> ELSE Tail(r.blocks) \o <<Blank>>)
                                       \o OwnBlocks(nodePath, schema[n])]
             ELSE r

\* buildSection(nodePath, node) as the frame number `depth` of the call stack;
\* the result is the array `blocks` (joined by '\n' in the code), or the
\* RangeError a call beyond the stack's capacity throws
buildSection(nodePath, n, depth) ==
    IF depth > StackLimit THEN StackOverflow(depth)
    ELSE childSections(nodePath, toObjectEntries(schema[n]), 1, depth,
                       OwnBlocks(nodePath, schema[n]))

----------------------------------------------------------------------------
(* The renderer's inputs: bounded families of schema heaps *)

SeqsUpTo(S, n) == UNION {[1..k -> S] : k \in 0..n}

PropLetters == <<"a", "b", "c", "d">>
PropName(j) == <<PropLetters[j]>>

\* a properties map whose j-th entry, in insertion order, holds node kids[j]
Props(kids) == [j \in 1..Len(kids) |-> [name |-> PropName(j), node |-> kids[j]]]

StringLeaf == [EmptyNode EXCEPT !.type = Some(S_string)]

\* the nodes free node i may refer to: the leaf, a later node, or the root
\* again (which makes the node reachable from itself)
Kids(i) == {Leaf} \cup ((i + 1)..MaxNodes) \cup {1}

PropsUpTo(i, n) == {None} \cup {Some(Props(ks)) : ks \in SeqsUpTo(Kids(i), n)}

RootShapes ==
    {[EmptyNode EXCEPT !.type = Some(S_object), !.properties = p] :
        p \in PropsUpTo(1, MaxProps)}

InnerShapes(i) ==
    {[EmptyNode EXCEPT !.type = Some(S_array), !.items = it] :
        it \in {None} \cup {Some(k) : k \in Kids(i)}}
    \cup {[EmptyNode EXCEPT !.type = Some(S_object), !.properties = p] :
        p \in PropsUpTo(i, 1)}
    \cup {[EmptyNode EXCEPT !.type = Some(S_string), !.properties = p] :
        p \in {None, Some(Props(<<Leaf>>))}}

RECURSIVE InnerHeaps(_)
InnerHeaps(i) ==
    IF i > MaxNodes THEN {Leaf :> StringLeaf}
    ELSE {(i :> s) @@ h : s \in InnerShapes(i), h \in InnerHeaps(i + 1)}

\* heaps for the section walk: trees, shared nodes and cycles
SectionHeaps == {(1 :> r) @@ h : r \in RootShapes, h \in InnerHeaps(2)}

SampleDescription == <<" ", "d", "\n", "\t", "e">>
SampleDescriptions == {None, Some(<<>>), Some(SampleDescription)}

\* heaps for the description paragraph: the root and its expandable child `a`
\* with and without a description
ParaHeap(rootDescription, childDescription) ==
    [i \in NodeIds |->
        IF i = 1
        THEN [EmptyNode EXCEPT !.type = Some(S_object),
                               !.properties = Some(Props(<<2>>)),
                               !.description = rootDescription]
        ELSE IF i = 2
        THEN [EmptyNode EXCEPT !.type = Some(S_object),
                               !.properties = Some(Props(<<Leaf>>)),
                               !.description = childDescription]
        ELSE StringLeaf]

ParaHeaps == {ParaHeap(r, c) : r \in SampleDescriptions, c \in SampleDescriptions}

\* heaps for the table cells: a root with one property `a`, whose description,
\* default and required mark vary
DescChars == {"|", "{", "}", "\n", "x"}

SampleDefaults ==
    {None,
     Some([t |-> "string", text |-> <<"x", "|", "\"">>]),
     Some([t |-> "number", text |-> <<"1">>]),
     Some([t |-> "bigint", text |-> <<"7">>])}

CellHeap(description, default, required) ==
    [i \in NodeIds |->
        IF i = 1
        THEN [EmptyNode EXCEPT !.type = Some(S_object),
                               !.properties = Some(Props(<<2>>)),
                               !.required = required]
        ELSE IF i = 2
        THEN [StringLeaf EXCEPT !.description = description, !.default = default]
        ELSE StringLeaf]

CellHeaps ==
    {CellHeap(Some(d), None, {}) : d \in SeqsUpTo(DescChars, MaxDescLen)}
    \cup {CellHeap(None, df, rq) : df \in SampleDefaults, rq \in {{}, {PropName(1)}, {PropName(2)}}}

\* heaps for the type labels: node 2 carries the combinators, node 3 and the
\* leaf are the alternatives
AltLists(ids) == {None} \cup {Some(xs) : xs \in SeqsUpTo(ids, MaxAlts)}

S_int64 == <<"i", "6", "4">>

TypedShapes ==
    {[EmptyNode EXCEPT !.type = t] : t \in {None, Some(S_string)}}
    \cup {[EmptyNode EXCEPT !.type = Some(S_array), !.items = it] : it \in {None, Some(3)}}
    \cup {[EmptyNode EXCEPT !.type = Some(S_object), !.additionalProperties = ap] :
            ap \in {None, Some([t |-> "bool", b |-> TRUE]), Some([t |-> "schema", node |-> 3])}}

SampleEnums ==
    {None, Some(<<[t |-> "string", text |-> <<"x">>], [t |-> "number", text |-> <<"1">>]>>)}

TypeHeap(shape, oneOf, anyOf, allOf, format, enum) ==
    [i \in NodeIds |->
        IF i = 1
        THEN [EmptyNode EXCEPT !.type = Some(S_object), !.properties = Some(Props(<<2>>))]
        ELSE IF i = 2
        THEN [shape EXCEPT !.oneOf = oneOf, !.anyOf = anyOf, !.allOf = allOf,
                           !.format = format, !.enum = enum]
        ELSE IF i = 3
        THEN [EmptyNode EXCEPT !.type = Some(S_integer), !.format = Some(S_int64)]
        ELSE StringLeaf]

TypeHeaps ==
    {TypeHeap(sh, o, a, l, f, e) :
        sh \in TypedShapes, o \in AltLists({Leaf, 3}), a \in AltLists({Leaf}),
        l \in AltLists({3}),
        f \in {None, Some(<<"d", "t">>)}, e \in SampleEnums}

----------------------------------------------------------------------------
(* The renderer under study: one call of buildSection or of formatType *)

EmptyMap == <<>>

MainIdle ==
    /\ files = <<>>
    /\ examples = None
    /\ examplesByKind = EmptyMap
    /\ outFiles = EmptyMap
    /\ log = <<>>
    /\ fileIdx = 0
    /\ docIdx = 0
    /\ docs = <<>>
    /\ status = "idle"
    /\ exitCode = 0
    /\ run = 0
    /\ firstRun = None

InitRenderer ==
    /\ \/ /\ \/ schema \in SectionHeaps
             \/ schema \in ParaHeaps
             \/ schema \in CellHeaps
          /\ call = [fn |-> "buildSection", node |-> 1]
       \/ /\ schema \in TypeHeaps
          /\ call = [fn |-> "formatType", node |-> 2]
    /\ ret = None
    /\ MainIdle

\* mdxForCrd's call: buildSection('#', schema)
CallBuildSection ==
    /\ call.fn = "buildSection"
    /\ ret = None
    /\ ret' = Some(buildSection(<<"#">>, call.node, 1))
    /\ UNCHANGED <<schema, call>>
    /\ UNCHANGED mainVars

CallFormatType ==
    /\ call.fn = "formatType"
    /\ ret = None
    /\ ret' = Some([ok |-> TRUE, text |-> formatType(call.node)])
    /\ UNCHANGED <<schema, call>>
    /\ UNCHANGED mainVars

NextRenderer == CallBuildSection \/ CallFormatType

Spec == InitRenderer /\ [][NextRenderer]_vars

----------------------------------------------------------------------------
(* Properties of the renderer *)

Returned(fn) == call.fn = fn /\ ret # None
Ret == The(ret)
Blocks == Ret.blocks

\* a buildSection call that returned its blocks
Built == Returned("buildSection") /\ Ret.ok

Headings == {i \in 1..Len(Blocks) : Blocks[i].k = "heading"}
HasHeading(text) == \E i \in Headings : Blocks[i].text = text

\* the expansion conditions as the specification words them: both want a
\* non-empty properties map
SpecExpandsAsObject(child) ==
    /\ child.type = Some(S_object)
    /\ NonEmptyList(child.properties)

SpecExpandsAsArray(child) ==
    /\ child.type = Some(S_array)
    /\ child.items # None
    /\ schema[The(child.items)].type = Some(S_object)
    /\ NonEmptyList(schema[The(child.items)].properties)

RootEntries == toObjectEntries(schema[1])

\* C1: a child of the section's node gets a nested subsection if and only if
\* it is an object with a non-empty properties map (heading `name`) or an
\* array whose items is an object with a non-empty properties map (heading
\* `name[]`); every other child, an array of objects with an empty properties
\* map included, gets its table row and no subsection.
C1_ExpandedIffNonEmpty ==
    Built =>
        \A j \in 1..Len(RootEntries) :
            LET name == RootEntries[j].name
                child == schema[RootEntries[j].node]
            IN  /\ \E i \in 1..Len(Blocks) : Blocks[i].k = "row" /\ Blocks[i].name = name
                /\ HasHeading(name) <=> SpecExpandsAsObject(child)
                /\ HasHeading(name \o <<"[", "]">>) <=>
                       (~SpecExpandsAsObject(child) /\ SpecExpandsAsArray(child))

\* the sections the specification's conditions reach from node n of a tree
RECURSIVE SpecSectionCount(_)
SpecSectionCount(n) ==
    LET entries == toObjectEntries(schema[n])
        below(j) ==
            LET child == schema[entries[j].node]
            IN  IF SpecExpandsAsObject(child) THEN SpecSectionCount(entries[j].node)
                ELSE IF SpecExpandsAsArray(child) THEN SpecSectionCount(The(child.items))
                ELSE 0
        sum[j \in 0..Len(entries)] == IF j = 0 THEN 0 ELSE sum[j - 1] + below(j)
    IN  1 + sum[Len(entries)]

\* the nodes a node refers to through properties and items
Refs(node) ==
    {toObjectEntries(node)[j].node : j \in 1..Len(toObjectEntries(node))}
    \cup node.items

\* a finite acyclic tree: nothing refers back to the root, and no free node is
\* referred to twice
IsTree ==
    /\ \A i \in 1..MaxNodes : 1 \notin Refs(schema[i])
    /\ \A i \in 1..MaxNodes :
          \A j1, j2 \in 1..Len(toObjectEntries(schema[i])) :
              (j1 # j2 /\ toObjectEntries(schema[i])[j1].node # Leaf)
                  => toObjectEntries(schema[i])[j1].node # toObjectEntries(schema[i])[j2].node
    /\ \A i1, i2 \in 1..MaxNodes :
          i1 # i2 => (Refs(schema[i1]) \cap Refs(schema[i2])) \subseteq {Leaf}
    /\ \A i \in 1..MaxNodes :
          toObjectEntries(schema[i]) # <<>> => schema[i].items = None

\* C10: on a finite acyclic schema tree buildSection terminates, with exactly
\* one section for the root and one for each node reachable from it through a
\* chain of expandable children.
C10_OneSectionPerExpandable ==
    (Returned("buildSection") /\ IsTree) =>
        /\ Ret.ok
        /\ Cardinality(Headings) = SpecSectionCount(1)

\* the nodes whose section buildSection builds inside the section of node n
ExpansionTargets(n) ==
    LET entries == toObjectEntries(schema[n])
    IN  {entries[j].node : j \in {j \in 1..Len(entries) : ExpandsAsObject(schema[entries[j].node])}}
        \cup {The(schema[entries[j].node].items) :
                j \in {j \in 1..Len(entries) :
                        /\ ~ExpandsAsObject(schema[entries[j].node])
                        /\ ExpandsAsArray(schema[entries[j].node])}}

RECURSIVE ExpansionReach(_, _)
ExpansionReach(S, fuel) ==
    IF fuel = 0 THEN S
    ELSE ExpansionReach(S \cup UNION {ExpansionTargets(n) : n \in S}, fuel - 1)

\* a node that buildSection reaches from the root reaches itself again
HasExpansionCycle ==
    \E n \in ExpansionReach({1}, MaxNodes + 1) :
        n \in ExpansionReach(ExpansionTargets(n), MaxNodes + 1)

\* C4: on a cyclic schema buildSection stops with a fatal malformed-input
\* error of its own: it does not go on entering nodes that are already on the
\* call stack until the engine's stack is exhausted.
C4_CycleDetected ==
    (Returned("buildSection") /\ HasExpansionCycle) =>
        /\ ~Ret.ok
        /\ Ret.error # "RangeError"
        /\ Ret.depth <= MaxNodes + 1

\* a heading's path: the heading text split at the dots, <<>> for Root
RECURSIVE SplitDots(_, _)
SplitDots(text, seg) ==
    IF text = <<>> THEN <<seg>>
    ELSE IF text[1] = "." THEN <<seg>> \o SplitDots(Tail(text), <<>>)
    ELSE SplitDots(Tail(text), seg \o <<text[1]>>)

PathOf(i) == IF Blocks[i].text = S_Root THEN <<>> ELSE SplitDots(Blocks[i].text, <<>>)

IsPrefix(p, q) == Len(p) <= Len(q) /\ SubSeq(q, 1, Len(p)) = p
Front(p) == SubSeq(p, 1, Len(p) - 1)
IsItemsSeg(seg) == Len(seg) > 2 /\ SubSeq(seg, Len(seg) - 1, Len(seg)) = <<"[", "]">>
SegName(seg) == IF IsItemsSeg(seg) THEN SubSeq(seg, 1, Len(seg) - 2) ELSE seg

\* where the own content of the section headed at block i ends
OwnEnd(i) ==
    IF \E q \in Headings : q > i
    THEN CHOOSE q \in Headings : q > i /\ \A r \in Headings : r > i => q <= r
    ELSE Len(Blocks) + 1

\* the rows of the section headed at block i
RowsOf(i) == {j \in (i + 1)..(OwnEnd(i) - 1) : Blocks[j].k = "row"}

S_arrayOfObject == S_array \o <<"<">> \o S_object \o <<">">>

\* C9: the sections come in depth-first pre-order.  The first block is the
\* heading Root; every section holds its heading, then its description if any,
\* then its table or the placeholder, before the next heading; every other
\* section follows its parent's, with only sections of the parent's subtree in
\* between, and is headed parent.name (name under Root), with [] appended
\* exactly for the items of an array; a subtree is contiguous; and sibling
\* sections come in the order of their rows in the parent's table.
C9_PreOrder ==
    Built =>
        /\ Blocks[1] = HeadingBlock(S_Root)
        /\ \A i \in Headings :
              /\ \E j \in (i + 1)..(OwnEnd(i) - 1) : Blocks[j].k \in {"thead", "placeholder"}
              /\ \A j, t \in (i + 1)..(OwnEnd(i) - 1) :
                    (Blocks[j].k = "para" /\ Blocks[t].k \in {"thead", "placeholder", "row"})
                        => j < t
              /\ \A j \in (i + 1)..(OwnEnd(i) - 1) : Blocks[j].k # "heading"
        /\ \A i \in Headings \ {1} :
              /\ PathOf(i) # <<>>
              /\ \E p \in Headings :
                    /\ p < i
                    /\ PathOf(p) = Front(PathOf(i))
                    /\ \A q \in Headings : (p < q /\ q < i) => IsPrefix(PathOf(p), PathOf(q))
                    /\ \E r \in RowsOf(p) :
                          /\ Blocks[r].name = SegName(PathOf(i)[Len(PathOf(i))])
                          /\ IF IsItemsSeg(PathOf(i)[Len(PathOf(i))])
                             THEN Blocks[r].type = S_arrayOfObject
                             ELSE Blocks[r].type = S_object
        /\ \A i, q, j \in Headings :
              (i < q /\ q < j /\ IsPrefix(PathOf(i), PathOf(j))) => IsPrefix(PathOf(i), PathOf(q))
        /\ \A i, j \in Headings \ {1} :
              (i < j /\ Front(PathOf(i)) = Front(PathOf(j))) =>
                  \E p \in Headings : \E ri, rj \in RowsOf(p) :
                      /\ PathOf(p) = Front(PathOf(i))
                      /\ Blocks[ri].name = SegName(PathOf(i)[Len(PathOf(i))])
                      /\ Blocks[rj].name = SegName(PathOf(j)[Len(PathOf(j))])
                      /\ ri < rj

\* C9 witness: Root, a, a.a and then b: a nested section between two siblings
C9_Witness ==
    /\ Built
    /\ \E i, j, t \in Headings :
          /\ i < j /\ j < t
          /\ Len(PathOf(i)) = 1 /\ Len(PathOf(j)) = 2 /\ Len(PathOf(t)) = 1
          /\ IsPrefix(PathOf(i), PathOf(j))
          /\ ~IsPrefix(PathOf(i), PathOf(t))

\* the description of property `a` and the description cell of its row
DescriptionOfA == schema[2].description
CellOfA ==
    Blocks[CHOOSE i \in 1..Len(Blocks) : Blocks[i].k = "row" /\ Blocks[i].name = PropName(1)].description

\* a description with a pipe, both braces and a newline between two other
\* characters, on the only property of the root
PipeBracesNewline ==
    /\ Built
    /\ RootEntries = Props(<<2>>)
    /\ DescriptionOfA # None
    /\ LET d == The(DescriptionOfA)
       IN  /\ \A ch \in {"|", "{", "}"} : \E i \in 1..Len(d) : d[i] = ch
           /\ \E i, j, t \in 1..Len(d) :
                 i < j /\ j < t /\ ~IsSpace(d[i]) /\ d[j] = "\n" /\ ~IsSpace(d[t])

\* the words of a text: its maximal runs of non-whitespace characters
RECURSIVE Words(_, _)
Words(text, word) ==
    IF text = <<>> THEN (IF word = <<>> THEN <<>> ELSE <<word>>)
    ELSE IF IsSpace(text[1])
         THEN (IF word = <<>> THEN <<>> ELSE <<word>>) \o Words(Tail(text), <<>>)
         ELSE Words(Tail(text), word \o <<text[1]>>)

\* what one character of a cell is displayed as
DisplayOf(ch) ==
    CASE ch = "|" -> S_pipe
      [] ch = "{" -> S_lbrace
      [] ch = "}" -> S_rbrace
      [] OTHER -> <<ch>>

\* C5 as claimed: the description cell shows the pipe as \|, the braces as
\* &#123; and &#125;, and the newline as <br />.
C5_NewlineShownAsBreak ==
    PipeBracesNewline =>
        /\ Contains(CellOfA, S_pipe)
        /\ Contains(CellOfA, S_lbrace)
        /\ Contains(CellOfA, S_rbrace)
        /\ Contains(CellOfA, S_br)

\* C5 as amended: the description cell is the description's words joined by
\* single spaces (the newline, like every whitespace run, has become one
\* space before the cell is escaped, so no <br /> appears), with every pipe
\* shown as \|, every { as &#123; and every } as &#125;, each character
\* rewritten on its own: no rewrite touches the output of another.
C5_CellIsEscapedWords ==
    PipeBracesNewline =>
        LET spaced == Join(Words(The(DescriptionOfA), <<>>), <<" ">>)
        IN  /\ CellOfA = Concat([i \in 1..Len(spaced) |-> DisplayOf(spaced[i])])
            /\ ~Contains(CellOfA, S_br)
            /\ ~Contains(CellOfA, <<"\n">>)

\* C5 witness: such a description has been rendered, and its cell holds an
\* escaped pipe and both brace entities
C5_Witness ==
    /\ PipeBracesNewline
    /\ Contains(CellOfA, S_pipe)
    /\ Contains(CellOfA, S_lbrace)
    /\ Contains(CellOfA, S_rbrace)

\* the labels of the two alternatives the type heaps use
AltLabel(id) ==
    IF id = Leaf THEN S_string ELSE S_integer \o <<" ", "[">> \o S_int64 \o <<"]">>

AltLabels(xs) == [i \in 1..Len(The(xs)) |-> AltLabel(The(xs)[i])]

\* C6: formatType applies the first matching branch in the order oneOf,
\* anyOf, allOf, array, object, primitive: a non-empty oneOf gives the
\* ' | '-join of its alternatives whatever type, anyOf, allOf, format and enum
\* are; a non-empty anyOf is used only when oneOf is absent or empty; a
\* non-empty allOf (joined with ' & ') only when both are absent or empty; and
\* the type decides only when all three are.
C6_FirstBranchWins ==
    (Returned("formatType") /\ call.node = 2) =>
        LET node == schema[2]
            text == Ret.text
        IN  /\ NonEmptyList(node.oneOf) => text = Join(AltLabels(node.oneOf), SepOr)
            /\ (~NonEmptyList(node.oneOf) /\ NonEmptyList(node.anyOf))
                  => text = Join(AltLabels(node.anyOf), SepOr)
            /\ (~NonEmptyList(node.oneOf) /\ ~NonEmptyList(node.anyOf)
                    /\ NonEmptyList(node.allOf))
                  => text = Join(AltLabels(node.allOf), SepAnd)
            /\ (~NonEmptyList(node.oneOf) /\ ~NonEmptyList(node.anyOf)
                    /\ ~NonEmptyList(node.allOf))
                  => /\ node.type = Some(S_array) => StartsWith(text, S_array)
                     /\ node.type = Some(S_object) =>
                            (text = S_object \/ StartsWith(text, <<"m", "a", "p", "<">>))
                     /\ node.type = Some(S_string) => StartsWith(text, S_string)
                     /\ node.type = None => StartsWith(text, S_unknown)

\* C6 witness: a node with a type, a format, an enum and all three
\* combinators non-empty, oneOf and anyOf naming different alternatives
C6_Witness ==
    /\ Returned("formatType")
    /\ LET node == schema[2]
       IN  /\ NonEmptyList(node.oneOf) /\ NonEmptyList(node.anyOf) /\ NonEmptyList(node.allOf)
           /\ The(node.oneOf) = <<3, Leaf>>
           /\ node.type = Some(S_array)
           /\ node.format # None
           /\ NonEmptyList(node.enum)
           /\ Ret.text = AltLabel(3) \o SepOr \o AltLabel(Leaf)

----------------------------------------------------------------------------
(* The generation run: loadExamplesByKind, mdxForCrd and main *)

\* Map.prototype.has and Map.prototype.set, fs.writeFile on a directory
Has(m, key) == key \in DOMAIN m
Put(m, key, value) ==
    [x \in DOMAIN m \cup {key} |-> IF x = key THEN value ELSE m[x]]

K_MCPServer == <<"M", "C", "P", "S", "e", "r", "v", "e", "r">>
K_MCPTool == <<"M", "C", "P", "T", "o", "o", "l">>
K_MCPPrompt == <<"M", "C", "P", "P", "r", "o", "m", "p", "t">>
K_MCPResource == <<"M", "C", "P", "R", "e", "s", "o", "u", "r", "c", "e">>
K_mcptool == <<"m", "c", "p", "t", "o", "o", "l">>
K_Widget == <<"W", "i", "d", "g", "e", "t">>
S_mdx == <<".", "m", "d", "x">>

\* the keys of CONDITION_DOCS
CONDITION_DOCS == {K_MCPServer, K_MCPTool, K_MCPPrompt, K_MCPResource}

\* loadExamplesByKind with the has() test dropped: the last candidate wins
RECURSIVE examplesFromLastWins(_, _, _)
examplesFromLastWins(candidates, i, out) ==
    IF i > Len(candidates) THEN out
    ELSE LET c == candidates[i]
             kind == IF c.throws \/ c.parsed = None THEN <<>>
                     ELSE ensureString(The(c.parsed).kind, <<>>)
         IN  IF kind = <<>>
             THEN examplesFromLastWins(candidates, i + 1, out)
             ELSE examplesFromLastWins(candidates, i + 1,
                                       Put(out, toLowerCase(kind), Trim(c.text)))

\* the loop of loadExamplesByKind from candidate i on: a candidate whose
\* toJSON throws, that is not an object or that has no kind is passed over;
\* the first one of a lowercased kind is kept
RECURSIVE examplesFrom(_, _, _)
examplesFrom(candidates, i, out) ==
    IF i > Len(candidates) THEN out
    ELSE LET c == candidates[i]
             kind == IF c.throws \/ c.parsed = None THEN <<>>
                     ELSE ensureString(The(c.parsed).kind, <<>>)
         IN  IF kind = <<>>
             THEN examplesFrom(candidates, i + 1, out)
             ELSE IF ~Has(out, toLowerCase(kind))
             THEN examplesFrom(candidates, i + 1,
                               Put(out, toLowerCase(kind), Trim(c.text)))
             ELSE examplesFrom(candidates, i + 1, out)

\* an unreadable examples file gives the empty map
loadExamplesByKind ==
    IF examples = None THEN EmptyMap ELSE examplesFrom(The(examples), 1, EmptyMap)

\* the output path with the kind's case kept
OutFileKeepCase(kind) == kind \o S_mdx

\* path.join(OUT_DIR, `${kind.toLowerCase()}.mdx`), relative to OUT_DIR
OutFile(kind) == toLowerCase(kind) \o S_mdx

\* the page with the number of the run in its provenance notice
mdxForCrdStamped(kind, group, version, root, example) ==
    LET section == buildSection(<<"#">>, root, 1)
    IN  [ok |-> section.ok,
         text |-> <<[k |-> "frontmatter", title |-> kind, description |-> kind],
                    [k |-> "notice", stamp |-> run],
                    [k |-> "identity", kind |-> kind, group |-> group, version |-> version,
                     apiVersion |-> group \o <<"/">> \o version,
                     slug |-> toLowerCase(kind)],
                    [k |-> "schema"]>>
                  \o section.blocks
                  \o (IF example # None /\ The(example) # <<>>
                      THEN <<[k |-> "example", text |-> The(example)]>>
                      ELSE <<>>)
                  \o (IF kind \in CONDITION_DOCS
                      THEN <<[k |-> "conditions", of |-> kind]>>
                      ELSE <<>>)]

\* mdxForCrd: front matter, notice, identity list, the schema sections, the
\* example block if an example was found, the static condition reference of
\* the kinds that have one.  ok is FALSE when buildSection threw.
mdxForCrd(kind, group, version, root, example) ==
    LET section == buildSection(<<"#">>, root, 1)
    IN  [ok |-> section.ok,
         text |-> <<[k |-> "frontmatter", title |-> kind, description |-> kind],
                    [k |-> "notice"],
                    [k |-> "identity", kind |-> kind, group |-> group, version |-> version,
                     apiVersion |-> group \o <<"/">> \o version,
                     slug |-> toLowerCase(kind)],
                    [k |-> "schema"]>>
                  \o section.blocks
                  \o (IF example # None /\ The(example) # <<>>
                      THEN <<[k |-> "example", text |-> The(example)]>>
                      ELSE <<>>)
                  \o (IF kind \in CONDITION_DOCS
                      THEN <<[k |-> "conditions", of |-> kind]>>
                      ELSE <<>>)]

\* the files of CRD_DIR whose name ends with '-crd.yaml', in readdir order
CrdFiles == SelectSeq(files, LAMBDA f : f.crd)

\* a document without schema treated like one without kind: passed over
OutcomeSkipsMissingSchema(doc) ==
    IF doc.null THEN "typeError"
    ELSE IF ensureString(doc.kind, <<>>) = <<>> THEN "skip"
    ELSE IF doc.schema = None THEN "skip"
    ELSE "write"

\* what the body of main's inner loop does with a parsed document: a null
\* document makes parsed.spec throw, a document without kind is passed over,
\* one with a kind and no openAPIV3Schema throws, any other is rendered
Outcome(doc) ==
    IF doc.null THEN "typeError"
    ELSE IF ensureString(doc.kind, <<>>) = <<>> THEN "skip"
    ELSE IF doc.schema = None THEN "missingSchema"
    ELSE "write"

\* the page main renders for a document
PageOf(doc) ==
    mdxForCrd(The(doc.kind), ensureString(doc.group, <<>>),
              ensureString(doc.version, <<>>), The(doc.schema),
              IF Has(examplesByKind, toLowerCase(The(doc.kind)))
              THEN Some(examplesByKind[toLowerCase(The(doc.kind))])
              ELSE None)

\* mkdir, loadExamplesByKind, readdir
Start ==
    /\ status = "start"
    /\ examplesByKind' = loadExamplesByKind
    /\ fileIdx' = 1
    /\ status' = "files"
    /\ UNCHANGED <<files, examples, outFiles, log, docIdx, docs, exitCode, run, firstRun>>
    /\ UNCHANGED rendererVars

\* readFile and YAML.parseAllDocuments of the next file
ReadFile ==
    /\ status = "files"
    /\ fileIdx <= Len(CrdFiles)
    /\ docs' = CrdFiles[fileIdx].docs
    /\ docIdx' = 1
    /\ status' = "docs"
    /\ UNCHANGED <<files, examples, examplesByKind, outFiles, log, fileIdx, exitCode, run, firstRun>>
    /\ UNCHANGED rendererVars

\* if (!kind) continue
SkipDoc ==
    /\ status = "docs"
    /\ docIdx <= Len(docs)
    /\ Outcome(docs[docIdx]) = "skip"
    /\ docIdx' = docIdx + 1
    /\ UNCHANGED <<files, examples, examplesByKind, outFiles, log, fileIdx, docs, status, exitCode, run, firstRun>>
    /\ UNCHANGED rendererVars

\* mdxForCrd, writeFile, console.log
WriteDoc ==
    /\ status = "docs"
    /\ docIdx <= Len(docs)
    /\ Outcome(docs[docIdx]) = "write"
    /\ PageOf(docs[docIdx]).ok
    /\ outFiles' = Put(outFiles, OutFile(The(docs[docIdx].kind)), PageOf(docs[docIdx]).text)
    /\ log' = Append(log, OutFile(The(docs[docIdx].kind)))
    /\ docIdx' = docIdx + 1
    /\ UNCHANGED <<files, examples, examplesByKind, fileIdx, docs, status, exitCode, run, firstRun>>
    /\ UNCHANGED rendererVars

\* an exception in the loop body rejects main(): the catch handler logs it and
\* calls process.exit(1)
Abort ==
    /\ status = "docs"
    /\ docIdx <= Len(docs)
    /\ \/ Outcome(docs[docIdx]) \in {"typeError", "missingSchema"}
       \/ Outcome(docs[docIdx]) = "write" /\ ~PageOf(docs[docIdx]).ok
    /\ status' = "aborted"
    /\ exitCode' = 1
    /\ UNCHANGED <<files, examples, examplesByKind, outFiles, log, fileIdx, docIdx, docs, run, firstRun>>
    /\ UNCHANGED rendererVars

\* the inner loop is over: on to the next file
NextFile ==
    /\ status = "docs"
    /\ docIdx > Len(docs)
    /\ fileIdx' = fileIdx + 1
    /\ status' = "files"
    /\ UNCHANGED <<files, examples, examplesByKind, outFiles, log, docIdx, docs, exitCode, run, firstRun>>
    /\ UNCHANGED rendererVars

\* the outer loop is over: main() resolves and the process exits with 0
Finish ==
    /\ status = "files"
    /\ fileIdx > Len(CrdFiles)
    /\ status' = "done"
    /\ exitCode' = 0
    /\ UNCHANGED <<files, examples, examplesByKind, outFiles, log, fileIdx, docIdx, docs, run, firstRun>>
    /\ UNCHANGED rendererVars

\* the generator is run again on the same inputs; OUT_DIR keeps what the first
\* run wrote
Rerun ==
    /\ status \in {"done", "aborted"}
    /\ run = 1
    /\ firstRun' = Some([outFiles |-> outFiles, status |-> status, log |-> log,
                         exitCode |-> exitCode])
    /\ run' = 2
    /\ status' = "start"
    /\ examplesByKind' = EmptyMap
    /\ log' = <<>>
    /\ fileIdx' = 0
    /\ docIdx' = 0
    /\ docs' = <<>>
    /\ exitCode' = 0
    /\ UNCHANGED <<files, examples, outFiles>>
    /\ UNCHANGED rendererVars

NextMain ==
    \/ Start
    \/ ReadFile
    \/ SkipDoc
    \/ WriteDoc
    \/ Abort
    \/ NextFile
    \/ Finish
    \/ Rerun

----------------------------------------------------------------------------
(* The run's inputs *)

\* the schema objects the documents of a run hold: node 1 and node 2
MainHeap == ParaHeap(Some(SampleDescription), None)

S_group == <<"g">>
S_v1 == <<"v", "1">>

Doc(kind, root) ==
    [null |-> FALSE, kind |-> kind, group |-> Some(S_group), version |-> Some(S_v1),
     schema |-> root]

NullDoc == [Doc(None, None) EXCEPT !.null = TRUE]

SampleDocs ==
    {Doc(Some(K_MCPTool), Some(1)), Doc(Some(K_MCPTool), Some(2)),
     Doc(Some(K_mcptool), Some(1)), Doc(Some(K_Widget), Some(1)),
     Doc(Some(K_MCPTool), None), Doc(None, Some(1)), NullDoc}

\* CRD_DIR: the documents ds in two *-crd.yaml files, cut after the first
\* `cut` documents, and between them a file of another name
Directory(ds, cut) ==
    LET c == IF cut < Len(ds) THEN cut ELSE Len(ds)
    IN  <<[crd |-> TRUE, docs |-> SubSeq(ds, 1, c)],
          [crd |-> FALSE, docs |-> <<Doc(Some(K_MCPServer), Some(1))>>],
          [crd |-> TRUE, docs |-> SubSeq(ds, c + 1, Len(ds))]>>

Candidate(kind, text) == [throws |-> FALSE, parsed |-> Some([kind |-> kind]), text |-> text]

SampleCandidates ==
    {Candidate(Some(K_MCPTool), <<"e", "1", "\n">>),
     Candidate(Some(K_MCPTool), <<"e", "2">>),
     Candidate(Some(K_mcptool), <<"e", "3">>),
     Candidate(None, <<"e", "4">>),
     [throws |-> TRUE, parsed |-> None, text |-> <<"e", "5">>],
     [throws |-> FALSE, parsed |-> None, text |-> <<>>]}

SampleExamples == Some(<<Candidate(Some(K_mcptool), <<"e", "3">>),
                         Candidate(Some(K_MCPTool), <<"e", "1", "\n">>)>>)

InitMain ==
    /\ schema = MainHeap
    /\ call = [fn |-> "main", node |-> 0]
    /\ ret = None
    /\ \/ /\ \E ds \in SeqsUpTo(SampleDocs, MaxDocs) : \E cut \in {1, 2} :
                files = Directory(ds, cut)
          /\ examples \in {None, SampleExamples}
       \/ /\ \E ds \in {<<Doc(Some(K_MCPTool), Some(1)), Doc(Some(K_Widget), Some(1))>>,
                        <<Doc(Some(K_mcptool), Some(2))>>} :
                files = Directory(ds, 1)
          /\ examples \in {Some(cs) : cs \in SeqsUpTo(SampleCandidates, MaxExamples)}
    /\ examplesByKind = EmptyMap
    /\ outFiles = EmptyMap
    /\ log = <<>>
    /\ fileIdx = 0
    /\ docIdx = 0
    /\ docs = <<>>
    /\ status = "start"
    /\ exitCode = 0
    /\ run = 1
    /\ firstRun = None

SpecMain == InitMain /\ [][NextMain]_vars

----------------------------------------------------------------------------
(* Properties of the run *)

\* the schema documents in the order main meets them
FlatDocs == Concat([i \in 1..Len(CrdFiles) |-> CrdFiles[i].docs])

DocsInFilesBefore(f) ==
    Len(Concat([i \in 1..(IF f - 1 < Len(CrdFiles) THEN f - 1 ELSE Len(CrdFiles)) |->
                   CrdFiles[i].docs]))

\* how many documents of FlatDocs the loop body has finished with
Handled ==
    CASE status \in {"docs", "aborted"} -> DocsInFilesBefore(fileIdx) + docIdx - 1
      [] status = "files" -> DocsInFilesBefore(fileIdx)
      [] status = "done" -> Len(FlatDocs)
      [] OTHER -> 0

HasKind(doc) == ~doc.null /\ doc.kind # None /\ The(doc.kind) # <<>>

\* the documents that name a kind and hold no openAPIV3Schema
MissingSchema == {i \in 1..Len(FlatDocs) : HasKind(FlatDocs[i]) /\ FlatDocs[i].schema = None}

\* the documents that name a kind and hold a schema
Renderable == {i \in 1..Len(FlatDocs) : HasKind(FlatDocs[i]) /\ FlatDocs[i].schema # None}

KindOf(i) == The(FlatDocs[i].kind)
LowerPath(i) == toLowerCase(KindOf(i)) \o S_mdx

\* the paths of the renderable documents among the first n, in order
PathsOfFirst(n) ==
    LET idx == SelectSeq([i \in 1..n |-> i], LAMBDA i : i \in Renderable)
    IN  [j \in 1..Len(idx) |-> LowerPath(idx[j])]

Range(f) == {f[x] : x \in DOMAIN f}

\* C2: a schema document that names a kind and has no openAPIV3Schema is
\* never passed over: the run stops at it with exit status 1, that document
\* writes nothing, and no document after it, in the same file or a later one,
\* is processed or written (what the run has written is what the documents
\* before it wrote).
C2_MissingSchemaAborts ==
    /\ \A i \in MissingSchema : Handled < i
    /\ (status = "aborted" /\ (Handled + 1) \in MissingSchema) =>
          /\ exitCode = 1
          /\ log = PathsOfFirst(Handled)
          /\ run = 1 => DOMAIN outFiles = Range(log)

\* C2 witness: the run stopped at a document without schema, after writing a
\* page and with another renderable document waiting in the same file or in a
\* later one
C2_Witness ==
    /\ status = "aborted"
    /\ (Handled + 1) \in MissingSchema
    /\ log # <<>>
    /\ (Handled + 2) \in Renderable
    /\ LowerPath(Handled + 2) \notin DOMAIN outFiles

\* C3 as claimed: after a completed run there is one output per distinct kind,
\* and no two kinds and no two schema documents write different content to
\* one path, so that the order of the documents cannot matter.
C3_OnePerKindOrderFree ==
    status = "done" =>
        /\ Cardinality(DOMAIN outFiles) = Cardinality({KindOf(i) : i \in Renderable})
        /\ \A i, j \in Renderable :
              LowerPath(i) = LowerPath(j) => PageOf(FlatDocs[i]).text = PageOf(FlatDocs[j]).text

\* C3 as amended: after a completed run there is one output per distinct
\* lowercased kind, at the path made of the lowercased kind; each holds the
\* page of the last document processed with that lowercased kind.  The outputs
\* are the same for every order of the documents only when no two documents
\* with the same lowercased kind render different pages.
C3_OnePerLowercasedKindLastWins ==
    status = "done" =>
        /\ DOMAIN outFiles = {LowerPath(i) : i \in Renderable}
        /\ Cardinality(DOMAIN outFiles) = Cardinality({toLowerCase(KindOf(i)) : i \in Renderable})
        /\ \A i \in Renderable :
              (\A j \in Renderable : j > i => toLowerCase(KindOf(j)) # toLowerCase(KindOf(i)))
                  => outFiles[LowerPath(i)] = PageOf(FlatDocs[i]).text

\* C3 witness: a completed run over two documents of one lowercased kind with
\* different pages and a document of another kind
C3_Witness ==
    /\ status = "done"
    /\ Cardinality(DOMAIN outFiles) = 2
    /\ \E i, j \in Renderable :
          /\ i < j
          /\ LowerPath(i) = LowerPath(j)
          /\ PageOf(FlatDocs[i]).text # PageOf(FlatDocs[j]).text
          /\ outFiles[LowerPath(i)] = PageOf(FlatDocs[j]).text

\* the kind an example candidate is tagged with, <<>> when it has none
CandidateKind(c) ==
    IF c.throws \/ c.parsed = None \/ The(c.parsed).kind = None THEN <<>>
    ELSE The(The(c.parsed).kind)

Candidates == IF examples = None THEN <<>> ELSE The(examples)

\* the example block of a page, as an optional text
ExampleIn(page) == {page[i].text : i \in {i \in 1..Len(page) : page[i].k = "example"}}
TitleOf(page) == page[1].title

FirstOf(hits) == CHOOSE i \in hits : \A j \in hits : i <= j

\* C7 as claimed: the example of a kind's page is the first candidate tagged
\* with that kind; later ones never replace it; without one there is no
\* example block.
C7_FirstOfSameKind ==
    \A p \in DOMAIN outFiles :
        LET hits == {i \in 1..Len(Candidates) : CandidateKind(Candidates[i]) = TitleOf(outFiles[p])}
        IN  ExampleIn(outFiles[p]) =
                IF hits = {} THEN None ELSE Some(Trim(Candidates[FirstOf(hits)].text))

\* C7 as amended: the example of a kind's page is the first candidate, in the
\* order of the examples file, whose kind equals the page's kind when both are
\* lowercased (its text trimmed); later ones are dropped and never replace it,
\* a candidate that cannot be read or has no kind is dropped, none of them
\* stops the run, and a kind without such a candidate gets no example block.
C7_FirstOfSameLowercasedKind ==
    /\ \A p \in DOMAIN outFiles :
          LET hits == {i \in 1..Len(Candidates) :
                          /\ CandidateKind(Candidates[i]) # <<>>
                          /\ toLowerCase(CandidateKind(Candidates[i]))
                                = toLowerCase(TitleOf(outFiles[p]))}
          IN  ExampleIn(outFiles[p]) =
                  IF hits = {} THEN None ELSE Some(Trim(Candidates[FirstOf(hits)].text))
    /\ status = "aborted" =>
          (FlatDocs[Handled + 1].null \/ (Handled + 1) \in MissingSchema)

\* C7 witness: a page carries the example of the first of two candidates of
\* its kind, which came after a candidate that could not be read
C7_Witness ==
    \E p \in DOMAIN outFiles : \E i, j, t \in 1..Len(Candidates) :
        /\ i < j /\ j < t
        /\ Candidates[i].throws
        /\ CandidateKind(Candidates[j]) = TitleOf(outFiles[p])
        /\ CandidateKind(Candidates[t]) = TitleOf(outFiles[p])
        /\ Trim(Candidates[j].text) # Trim(Candidates[t].text)
        /\ ExampleIn(outFiles[p]) = Some(Trim(Candidates[j].text))

====
